---- MODULE Spec2Model ----
(***************************************************************************)
(* Column-flow layout engine of the cheat-sheet generators.                *)
(*                                                                         *)
(*   A : 07_ReviewSheets/generate_pdf.py              (erase-and-redraw)   *)
(*   B : 07_ReviewSheets/SystemDesign/generate_pdf.py (deferred header)    *)
(*                                                                         *)
(* Both CheatSheet classes are driven by the same sequence of calls, so    *)
(* every step applies one call to both engines. The variable text holds    *)
(* the locals of the loop with which body_text cuts one line to the        *)
(* column; the loop is the same in both classes and touches no field.      *)
(*                                                                         *)
(* Lengths are integers in units of 1/30 mm, the coarsest unit in which    *)
(* every length of the source (tenths of a millimetre, and the column      *)
(* width, a third of a tenth) is a whole number: the arithmetic is the     *)
(* exact decimal arithmetic of the source's literals (the source computes  *)
(* in binary floating point, which can differ from it only where           *)
(* col_y + needed equals h - margin to the last digit).                    *)
(*                                                                         *)
(* The canvas of an engine is the sequence of the rectangles and cells it  *)
(* has drawn; what a later filled item overlaps is painted over.           *)
(***************************************************************************)
EXTENDS Integers, Sequences, FiniteSets, TLC

VARIABLES A, B, call, text

vars == <<A, B, call, text>>

(* ------------------------------ units -------------------------------- *)

\* self.col_count
col_count == 3

\* one tenth of a millimetre and one millimetre, in model units: the column
\* width is a col_count-th of a whole number of tenths
Tenth == col_count
MM == 10 * Tenth

\* Python's None
None == <<>>

Max(a, b) == IF a >= b THEN a ELSE b

(* ------------------------------ bounds ------------------------------- *)

\* number of engine calls after the document has been begun
MaxCalls == 4

(* ------------------------------ inputs ------------------------------- *)

\* page titles; a title is a sequence of tokens, "(cont.)" being the
\* continuation suffix " (cont.)"
CONT == "(cont.)"
Titles == { <<"Swift">>, <<"Design", CONT>> }

\* len(lines) of the code blocks: small ones, one filling most of a column
\* (50), one higher than a whole column (57)
CodeLines == {3, 4, 50, 57}

\* len(lines) of the body texts
BodyLines == {1, 5}

\* get_string_width(full) of a labeled list (Helvetica 5.8), and the number
\* of lines multi_cell really wraps item_str into (Courier 5.5, in the
\* narrower width available_w - label_w): the two are measured with
\* different fonts and widths, so the second is an input of its own.
\* 80 mm is estimated as one line; forty "W" wrap into one line, 170 "i"
\* into three. 260 mm is more than three column widths.
ListInputs == { <<80 * MM, 1>>, <<80 * MM, 3>>, <<260 * MM, 4>> }

\* heights given to spacer (its default is 2)
SpacerHeights == {2 * MM, 8 * MM}

(* --------------------------- FPDF base class -------------------------- *)

\* FPDF(orientation="L", unit="mm", format="letter"): 279.4 x 215.9 mm
LetterW == 2794 * Tenth
LetterH == 2159 * Tenth

\* FPDF.add_page: opens the next page
add_page(e) == [e EXCEPT !.page = @ + 1]

\* a drawing command issued to the canvas: a cell or a rectangle of the
\* given kind, drawn for call number id (for a banner, id is the title it
\* shows) at (x, y) with size (w, h) on the current page; fill says
\* whether it paints its background
Item(e, kind, id, x, y, w, h, fill) ==
  [kind |-> kind, id |-> id, page |-> e.page,
   x |-> x, y |-> y, w |-> w, h |-> h, fill |-> fill]

Draw(e, item) == [e EXCEPT !.canvas = Append(@, item)]

(* ------------------------- shared engine code ------------------------- *)

\* CheatSheet.__init__ without the pending-header field
Geometry ==
  LET margin    == 6 * MM
      col_gap   == 4 * MM
      usable_w  == LetterW - 2 * margin
  IN  [w |-> LetterW, h |-> LetterH,
       col_count |-> col_count, margin |-> margin, col_gap |-> col_gap,
       usable_w |-> usable_w,
       col_w |-> (usable_w - (col_count - 1) * col_gap) \div col_count,
       col_idx |-> 0, col_x |-> margin,
       col_top |-> 18 * MM, col_y |-> 18 * MM,
       current_page_title |-> <<>>,
       page |-> 0, canvas |-> <<>>]

\* str.replace(" (cont.)", ""): removes every occurrence
StripCont(title) == SelectSeq(title, LAMBDA t : t # CONT)

\* page_header moving the top of content to the bottom of the banner
page_header_moves_top(e, title) ==
  LET e1 == [e EXCEPT !.current_page_title = title]
      e2 == Draw(e1, Item(e1, "banner", title, 0, 0, e1.w, 14 * MM, TRUE))
  IN  [e2 EXCEPT !.col_top = 14 * MM, !.col_y = 14 * MM]

page_header(e, title) ==
  LET e1 == [e EXCEPT !.current_page_title = title]
      e2 == Draw(e1, Item(e1, "banner", title, 0, 0, e1.w, 14 * MM, TRUE))
  IN  [e2 EXCEPT !.col_y = e2.col_top]

col_left(e) == e.margin + e.col_idx * (e.col_w + e.col_gap)

\* check_space with the column test off by one (> for >=)
check_space_off_by_one(e, needed) ==
  IF e.col_y + needed > e.h - e.margin
  THEN LET e1 == [e EXCEPT !.col_idx = @ + 1, !.col_y = e.col_top]
       IN  IF e1.col_idx > e1.col_count
           THEN LET e2 == add_page(e1)
                    base == StripCont(e2.current_page_title)
                    e3 == page_header(e2, Append(base, CONT))
                IN  [e3 EXCEPT !.col_idx = 0, !.col_y = e3.col_top]
           ELSE e1
  ELSE e

\* check_space advancing the column without resetting the offset
check_space_keeps_offset(e, needed) ==
  IF e.col_y + needed > e.h - e.margin
  THEN LET e1 == [e EXCEPT !.col_idx = @ + 1]
       IN  IF e1.col_idx >= e1.col_count
           THEN LET e2 == add_page(e1)
                    base == StripCont(e2.current_page_title)
                    e3 == page_header(e2, Append(base, CONT))
                IN  [e3 EXCEPT !.col_idx = 0, !.col_y = e3.col_top]
           ELSE e1
  ELSE e

\* check_space appending the suffix to the title as it is
check_space_no_strip(e, needed) ==
  IF e.col_y + needed > e.h - e.margin
  THEN LET e1 == [e EXCEPT !.col_idx = @ + 1, !.col_y = e.col_top]
       IN  IF e1.col_idx >= e1.col_count
           THEN LET e2 == add_page(e1)
                    e3 == page_header(e2, Append(e2.current_page_title, CONT))
                IN  [e3 EXCEPT !.col_idx = 0, !.col_y = e3.col_top]
           ELSE e1
  ELSE e

\* check_space measuring against the page height, the margin forgotten
check_space_no_margin(e, needed) ==
  IF e.col_y + needed > e.h
  THEN LET e1 == [e EXCEPT !.col_idx = @ + 1, !.col_y = e.col_top]
       IN  IF e1.col_idx >= e1.col_count
           THEN LET e2 == add_page(e1)
                    base == StripCont(e2.current_page_title)
                    e3 == page_header(e2, Append(base, CONT))
                IN  [e3 EXCEPT !.col_idx = 0, !.col_y = e3.col_top]
           ELSE e1
  ELSE e

\* check_space going back to column 0 of the same page after the last
\* column
check_space_wraps_columns(e, needed) ==
  IF e.col_y + needed > e.h - e.margin
  THEN LET e1 == [e EXCEPT !.col_idx = @ + 1, !.col_y = e.col_top]
       IN  IF e1.col_idx >= e1.col_count
           THEN [e1 EXCEPT !.col_idx = 0]
           ELSE e1
  ELSE e

\* check_space starting the page after the last column without drawing
\* the title banner on it
check_space_no_banner(e, needed) ==
  IF e.col_y + needed > e.h - e.margin
  THEN LET e1 == [e EXCEPT !.col_idx = @ + 1, !.col_y = e.col_top]
       IN  IF e1.col_idx >= e1.col_count
           THEN LET e2 == add_page(e1)
                    base == StripCont(e2.current_page_title)
                IN  [e2 EXCEPT !.current_page_title = Append(base, CONT),
                               !.col_idx = 0, !.col_y = e2.col_top]
           ELSE e1
  ELSE e

check_space(e, needed) ==
  IF e.col_y + needed > e.h - e.margin
  THEN LET e1 == [e EXCEPT !.col_idx = @ + 1, !.col_y = e.col_top]
       IN  IF e1.col_idx >= e1.col_count
           THEN LET e2 == add_page(e1)
                    base == StripCont(e2.current_page_title)
                    e3 == page_header(e2, Append(base, CONT))
                IN  [e3 EXCEPT !.col_idx = 0, !.col_y = e3.col_top]
           ELSE e1
  ELSE e

\* the header band drawn by subsection, by orphan correction and by
\* _flush_pending_subsect: a filled cell 4.5 high, cursor advanced by 5.5
SubsectBand(e, title) ==
  LET e1 == Draw(e, Item(e, "subsect", title, col_left(e), e.col_y,
                         e.col_w, 45 * Tenth, TRUE))
  IN  [e1 EXCEPT !.col_y = @ + 55 * Tenth]

\* section after the pending header has been cleared
SectionBand(e, id) ==
  LET e1 == check_space(e, 7 * MM)
      e2 == Draw(e1, Item(e1, "section", id, col_left(e1), e1.col_y,
                          e1.col_w, 55 * Tenth, TRUE))
  IN  [e2 EXCEPT !.col_y = @ + 65 * Tenth]

\* needed height of a code block and of a body text of n lines
CodeNeeded(n) == n * 34 * Tenth + 2 * MM
BodyNeeded(n) == n * 32 * Tenth + 1 * MM

\* code_block after its space check: the background rectangle of height
\* needed (the text cells lie inside it), cursor 0.5 below it
CodeDraw(e, id, n) ==
  LET needed == CodeNeeded(n)
      y_start == e.col_y
      e1 == Draw(e, Item(e, "code", id, col_left(e), y_start,
                         e.col_w, needed, TRUE))
  IN  [e1 EXCEPT !.col_y = y_start + needed + 5 * Tenth]

\* body_text after its space check: n cells 3 high, 3.2 apart, starting at
\* the cursor (recorded as one item from the first cell's top to the last
\* cell's bottom), cursor advanced by n * 3.2 + 1
BodyDraw(e, id, n) ==
  LET e1 == Draw(e, Item(e, "body", id, col_left(e) + 15 * Tenth, e.col_y,
                         e.col_w - 3 * MM, (n - 1) * 32 * Tenth + 3 * MM,
                         FALSE))
  IN  [e1 EXCEPT !.col_y = @ + n * 32 * Tenth + 1 * MM]

\* est_lines without the line begun by the remainder
EstLinesRoundedDown(e, full_w) ==
  LET available_w == e.col_w - 3 * MM
  IN  Max(1, full_w \div available_w)

\* est_lines of compact_list for a measured width full_w
EstLines(e, full_w) ==
  LET available_w == e.col_w - 3 * MM
  IN  Max(1, (full_w \div available_w) + 1)

\* compact_list running the orphan correction of code_block and body_text
\* where the engine keeps a record of the header drawn
compact_list_keep_subsect(e, id, full_w, wraps) ==
  LET needed == EstLines(e, full_w) * 32 * Tenth + 1 * MM
      sub == IF "last_subsect" \in DOMAIN e THEN e.last_subsect ELSE None
      orphan == /\ sub # None
                /\ sub[3] = e.page /\ sub[4] = e.col_idx
                /\ e.col_y + needed > e.h - e.margin
      e1 == IF orphan
            THEN LET w1 == Draw(e, Item(e, "white", sub[1], col_left(e), sub[2],
                                        e.col_w, e.col_y - sub[2], TRUE))
                     w2 == check_space([w1 EXCEPT !.col_y = sub[2]],
                                       55 * Tenth + needed)
                 IN  [SubsectBand(w2, sub[1]) EXCEPT !.last_subsect = None]
            ELSE check_space(e, needed)
      e2 == Draw(e1, Item(e1, "list", id, col_left(e1) + 15 * Tenth, e1.col_y,
                          e1.col_w - 3 * MM, wraps * 32 * Tenth, FALSE))
      get_y == e1.col_y + wraps * 32 * Tenth
  IN  [e2 EXCEPT !.col_y = get_y + 8 * Tenth]

\* compact_list; wraps is the number of lines multi_cell writes, after
\* which get_y() is the cell's start plus wraps * 3.2
compact_list(e, id, full_w, wraps) ==
  LET needed == EstLines(e, full_w) * 32 * Tenth + 1 * MM
      e1 == check_space(e, needed)
      e2 == Draw(e1, Item(e1, "list", id, col_left(e1) + 15 * Tenth, e1.col_y,
                          e1.col_w - 3 * MM, wraps * 32 * Tenth, FALSE))
      get_y == e1.col_y + wraps * 32 * Tenth
  IN  [e2 EXCEPT !.col_y = get_y + 8 * Tenth]

\* spacer checking for room like a block
spacer_checked(e, h) ==
  LET e1 == IF e.col_y + h > e.h - e.margin
            THEN IF e.col_idx + 1 >= e.col_count
                 THEN [page_header(add_page(e),
                                   Append(StripCont(e.current_page_title), CONT))
                         EXCEPT !.col_idx = 0]
                 ELSE [e EXCEPT !.col_idx = @ + 1, !.col_y = e.col_top]
            ELSE e
  IN  [e1 EXCEPT !.col_y = @ + h]

spacer(e, h) == [e EXCEPT !.col_y = @ + h]

(* ------------------- A: 07_ReviewSheets/generate_pdf.py --------------- *)

InitA == Geometry @@ [last_subsect |-> None]

\* _check_space_keep_subsect without the orphan handling: the header record
\* is dropped and the block placed by the standard check
check_space_drop_subsect(e, needed) ==
  check_space([e EXCEPT !.last_subsect = None], needed)

\* _check_space_keep_subsect recording the header again where it is redrawn
\* instead of clearing the record
check_space_keep_subsect_rerecord(e, needed) ==
  LET sub == e.last_subsect
  IN  IF sub # None
      THEN LET same_loc == (sub[3] = e.page /\ sub[4] = e.col_idx)
               would_overflow == (e.col_y + needed > e.h - e.margin)
           IN  IF same_loc /\ would_overflow
               THEN LET e1 == Draw(e, Item(e, "white", sub[1], col_left(e), sub[2],
                                           e.col_w, e.col_y - sub[2], TRUE))
                        e2 == [e1 EXCEPT !.col_y = sub[2]]
                        e3 == check_space(e2, 55 * Tenth + needed)
                        e4 == SubsectBand(e3, sub[1])
                    IN  [e4 EXCEPT !.last_subsect =
                                      <<sub[1], e3.col_y, e3.page, e3.col_idx>>]
               ELSE check_space([e EXCEPT !.last_subsect = None], needed)
      ELSE check_space(e, needed)

\* _check_space_keep_subsect without the white rectangle
check_space_keep_subsect_no_erase(e, needed) ==
  LET sub == e.last_subsect
  IN  IF sub # None
      THEN LET same_loc == (sub[3] = e.page /\ sub[4] = e.col_idx)
               would_overflow == (e.col_y + needed > e.h - e.margin)
           IN  IF same_loc /\ would_overflow
               THEN LET e2 == [e EXCEPT !.col_y = sub[2]]
                        e3 == check_space(e2, 55 * Tenth + needed)
                        e4 == SubsectBand(e3, sub[1])
                    IN  [e4 EXCEPT !.last_subsect = None]
               ELSE check_space([e EXCEPT !.last_subsect = None], needed)
      ELSE check_space(e, needed)

\* _check_space_keep_subsect erasing and redrawing the header whether or
\* not the block overflows
check_space_keep_subsect_always(e, needed) ==
  LET sub == e.last_subsect
  IN  IF sub # None
      THEN IF sub[3] = e.page /\ sub[4] = e.col_idx
           THEN LET e1 == Draw(e, Item(e, "white", sub[1], col_left(e), sub[2],
                                       e.col_w, e.col_y - sub[2], TRUE))
                    e2 == [e1 EXCEPT !.col_y = sub[2]]
                    e3 == check_space(e2, 55 * Tenth + needed)
                    e4 == SubsectBand(e3, sub[1])
                IN  [e4 EXCEPT !.last_subsect = None]
           ELSE check_space([e EXCEPT !.last_subsect = None], needed)
      ELSE check_space(e, needed)

\* _check_space_keep_subsect going on to the standard check after it has
\* redrawn the header (the return left out)
check_space_keep_subsect_no_return(e, needed) ==
  LET sub == e.last_subsect
      e5 == IF sub # None
            THEN IF /\ sub[3] = e.page /\ sub[4] = e.col_idx
                    /\ e.col_y + needed > e.h - e.margin
                 THEN LET e1 == Draw(e, Item(e, "white", sub[1], col_left(e),
                                             sub[2], e.col_w, e.col_y - sub[2],
                                             TRUE))
                          e2 == [e1 EXCEPT !.col_y = sub[2]]
                          e3 == check_space(e2, 55 * Tenth + needed)
                          e4 == SubsectBand(e3, sub[1])
                      IN  [e4 EXCEPT !.last_subsect = None]
                 ELSE [e EXCEPT !.last_subsect = None]
            ELSE e
  IN  check_space(e5, needed)

check_space_keep_subsect(e, needed) ==
  LET sub == e.last_subsect
  IN  IF sub # None
      THEN LET title == sub[1]
               sub_y == sub[2]
               sub_page == sub[3]
               sub_col == sub[4]
               same_loc == (sub_page = e.page /\ sub_col = e.col_idx)
               would_overflow == (e.col_y + needed > e.h - e.margin)
           IN  IF same_loc /\ would_overflow
               THEN LET e1 == Draw(e, Item(e, "white", title, col_left(e), sub_y,
                                           e.col_w, e.col_y - sub_y, TRUE))
                        e2 == [e1 EXCEPT !.col_y = sub_y]
                        e3 == check_space(e2, 55 * Tenth + needed)
                        e4 == SubsectBand(e3, title)
                    IN  [e4 EXCEPT !.last_subsect = None]
               ELSE check_space([e EXCEPT !.last_subsect = None], needed)
      ELSE check_space(e, needed)

\* new_page leaving the column index as it is
new_page_keeps_column(e, title) ==
  LET e1 == page_header(add_page(e), title)
  IN  [e1 EXCEPT !.col_y = e1.col_top, !.last_subsect = None]

new_page(e, title) ==
  LET e1 == page_header(add_page(e), title)
  IN  [e1 EXCEPT !.col_idx = 0, !.col_y = e1.col_top, !.last_subsect = None]

\* section leaving the header record as it is
section_keeps_record(e, id) == SectionBand(e, id)

section(e, id) == SectionBand([e EXCEPT !.last_subsect = None], id)

\* subsection reserving the height its header band advances by, 5.5
subsection_reserves_header(e, title) ==
  LET e1 == check_space(e, 55 * Tenth)
      e2 == Draw(e1, Item(e1, "subsect", title, col_left(e1), e1.col_y,
                          e1.col_w, 45 * Tenth, TRUE))
  IN  [e2 EXCEPT !.last_subsect = <<title, e1.col_y, e1.page, e1.col_idx>>,
                 !.col_y = @ + 55 * Tenth]

subsection(e, title) ==
  LET e1 == check_space(e, 6 * MM + 2 * 34 * Tenth + 2 * MM)
      e2 == Draw(e1, Item(e1, "subsect", title, col_left(e1), e1.col_y,
                          e1.col_w, 45 * Tenth, TRUE))
  IN  [e2 EXCEPT !.last_subsect = <<title, e1.col_y, e1.page, e1.col_idx>>,
                 !.col_y = @ + 55 * Tenth]

code_block(e, id, n) ==
  CodeDraw(check_space_keep_subsect(e, CodeNeeded(n)), id, n)

body_text(e, id, n) ==
  BodyDraw(check_space_keep_subsect(e, BodyNeeded(n)), id, n)

(* ------------- B: 07_ReviewSheets/SystemDesign/generate_pdf.py -------- *)

InitB == Geometry @@ [pending_subsect |-> None]

flush_pending_subsect(e) ==
  IF e.pending_subsect # None
  THEN LET title == e.pending_subsect[1]
       IN  SubsectBand([e EXCEPT !.pending_subsect = None], title)
  ELSE e

new_pageSD(e, title) ==
  LET e1 == page_header(add_page([e EXCEPT !.pending_subsect = None]), title)
  IN  [e1 EXCEPT !.col_idx = 0, !.col_y = e1.col_top]

sectionSD(e, id) == SectionBand([e EXCEPT !.pending_subsect = None], id)

subsectionSD(e, title) == [e EXCEPT !.pending_subsect = <<title>>]

\* the space check made for the block alone, the pending header drawn
\* wherever it leaves the cursor
CheckPending_block_only(e, needed) ==
  IF e.pending_subsect # None
  THEN LET e1 == check_space(e, needed)
           e2 == Draw(e1, Item(e1, "subsect", e.pending_subsect[1],
                               col_left(e1), e1.col_y, e1.col_w, 45 * Tenth,
                               TRUE))
       IN  [e2 EXCEPT !.pending_subsect = None, !.col_y = @ + 55 * Tenth]
  ELSE check_space(e, needed)

\* the space check of code_block and body_text
CheckPending(e, needed) ==
  IF e.pending_subsect # None
  THEN flush_pending_subsect(check_space(e, 55 * Tenth + needed))
  ELSE check_space(e, needed)

code_blockSD(e, id, n) == CodeDraw(CheckPending(e, CodeNeeded(n)), id, n)

body_textSD(e, id, n) == BodyDraw(CheckPending(e, BodyNeeded(n)), id, n)

(* ------------------------------ the run ------------------------------- *)

\* the last call made: its number, its name and its arguments, the name of
\* the call before it, the titles passed to subsection so far (a
\* sub-header's title is the number of the call that passes it), and the
\* title last passed to page_header by build or to new_page
NoCall ==
  [n |-> 0, op |-> "init", a |-> 0, b |-> 0, prev |-> "init", subs |-> {},
   title |-> <<>>]
Called(op, a, b) ==
  [n |-> call.n + 1, op |-> op, a |-> a, b |-> b, prev |-> call.op,
   subs |-> IF op = "subsection" THEN call.subs \cup {call.n + 1} ELSE call.subs,
   title |-> call.title]

\* no line is being cut
NoText ==
  [line |-> <<>>, truncated |-> <<>>, available_w |-> 0, removed |-> 0,
   pc |-> "idle"]

Init ==
  /\ A = InitA
  /\ B = InitB
  /\ call = NoCall
  /\ text = NoText

\* build(): pdf = CheatSheet(); pdf.add_page(); pdf.page_header(title)
BeginDocument ==
  /\ call.op = "init"
  /\ \E t \in Titles :
       /\ A' = page_header(add_page(A), t)
       /\ B' = page_header(add_page(B), t)
       /\ call' = [call EXCEPT !.op = "begin", !.prev = "init", !.title = t]
  /\ UNCHANGED text

\* a page is open, the document is not written yet, calls are left
Open == call.op \notin {"init", "output"} /\ call.n < MaxCalls

NewPage ==
  /\ Open
  /\ \E t \in Titles :
       /\ A' = new_page(A, t)
       /\ B' = new_pageSD(B, t)
       /\ call' = [Called("new_page", 0, 0) EXCEPT !.title = t]
  /\ UNCHANGED text

Section ==
  /\ Open
  /\ A' = section(A, call.n + 1)
  /\ B' = sectionSD(B, call.n + 1)
  /\ call' = Called("section", 0, 0)
  /\ UNCHANGED text

Subsection ==
  /\ Open
  /\ A' = subsection(A, call.n + 1)
  /\ B' = subsectionSD(B, call.n + 1)
  /\ call' = Called("subsection", 0, 0)
  /\ UNCHANGED text

CodeBlock ==
  /\ Open
  /\ \E n \in CodeLines :
       /\ A' = code_block(A, call.n + 1, n)
       /\ B' = code_blockSD(B, call.n + 1, n)
       /\ call' = Called("code_block", n, 0)
  /\ UNCHANGED text

BodyText ==
  /\ Open
  /\ \E n \in BodyLines :
       /\ A' = body_text(A, call.n + 1, n)
       /\ B' = body_textSD(B, call.n + 1, n)
       /\ call' = Called("body_text", n, 0)
  /\ UNCHANGED text

CompactList ==
  /\ Open
  /\ \E in \in ListInputs :
       /\ A' = compact_list(A, call.n + 1, in[1], in[2])
       /\ B' = compact_list(B, call.n + 1, in[1], in[2])
       /\ call' = Called("compact_list", in[1], in[2])
  /\ UNCHANGED text

Spacer ==
  /\ Open
  /\ \E h \in SpacerHeights :
       /\ A' = spacer(A, h)
       /\ B' = spacer(B, h)
       /\ call' = Called("spacer", h, 0)
  /\ UNCHANGED text

\* build(): pdf.output(out), the canvas as it is becomes the document
Output ==
  /\ call.op \notin {"init", "output"}
  /\ call' = [call EXCEPT !.op = "output", !.prev = call.op]
  /\ UNCHANGED <<A, B, text>>

Next ==
  \/ BeginDocument
  \/ NewPage
  \/ Section
  \/ Subsection
  \/ CodeBlock
  \/ BodyText
  \/ CompactList
  \/ Spacer
  \/ Output

Spec == Init /\ [][Next]_vars

(* ---------------------- cutting a line of body text ------------------- *)

\* longest line cut
MaxLineLen == 4

\* a narrow and a wide character of Helvetica, and their widths in
\* thousandths of the font size, the unit of the font's width table that
\* get_string_width sums up
Glyphs == {"i", "W"}
GlyphWidth(c) == IF c = "i" THEN 222 ELSE 944

\* the lines: every string of at most MaxLineLen of these characters, the
\* empty line included
Lines == UNION { [1..n -> Glyphs] : n \in 0..MaxLineLen }

\* available widths, in the same unit: nothing fits, one narrow character
\* just fits or just not, ..., every line fits
AvailableWidths == {0, 221, 222, 943, 944, 1166, 1887, 1888, 2500, 4000}

RECURSIVE get_string_width(_)
get_string_width(str) ==
  IF str = <<>> THEN 0
  ELSE GlyphWidth(str[Len(str)]) + get_string_width(SubSeq(str, 1, Len(str) - 1))

\* truncated[1:], the first character removed instead of the last
DropFirst(str) == SubSeq(str, 2, Len(str))

\* truncated[:], nothing removed
DropNone(str) == str

\* truncated[:-1]
DropLast(str) == SubSeq(str, 1, Len(str) - 1)

\* body_text reaches the loop with truncated = line
InitTruncate ==
  /\ A = InitA
  /\ B = InitB
  /\ call = NoCall
  /\ text \in { [line |-> l, truncated |-> l, available_w |-> w, removed |-> 0,
                 pc |-> "loop"] : l \in Lines, w \in AvailableWidths }

\* the condition of the while loop
TooWide ==
  /\ Len(text.truncated) > 0
  /\ get_string_width(text.truncated) > text.available_w

\* one turn of the loop
TruncateStep ==
  /\ text.pc = "loop"
  /\ TooWide
  /\ text' = [text EXCEPT !.truncated = DropLast(@), !.removed = @ + 1]
  /\ UNCHANGED <<A, B, call>>

\* the loop is left and the line handed to cell
TruncateDone ==
  /\ text.pc = "loop"
  /\ ~ TooWide
  /\ text' = [text EXCEPT !.pc = "cell"]
  /\ UNCHANGED <<A, B, call>>

NextTruncate ==
  \/ TruncateStep
  \/ TruncateDone

SpecTruncate == InitTruncate /\ [][NextTruncate]_vars

\* the loop is not interrupted: body_text runs it in one thread until its
\* condition fails
SpecTruncateFair == SpecTruncate /\ WF_vars(NextTruncate)

(* ------------------ sections with a body on short pages --------------- *)

MaxSmallCalls == 14

\* section() and then body_text() of one line stay in the column they
\* start at the top of, and the section() after them does not: the page
\* height hh holds exactly two small blocks per column
HoldsTwoBlocks(hh) ==
  LET e0 == [InitA EXCEPT !.h = hh, !.page = 1]
      e2 == body_text(section(e0, 1), 2, 1)
      e3 == section(e2, 3)
  IN  e2.col_idx = 0 /\ e2.page = 1 /\ e3.col_idx = 1 /\ e3.page = 1

\* self.h of a page format shorter than letter
SmallHeights ==
  { hh \in (Geometry.col_top + Geometry.margin)..(Geometry.h \div 4) :
      HoldsTwoBlocks(hh) }

\* CheatSheet() on a page of a small height
InitSmall ==
  /\ \E hh \in SmallHeights :
       /\ A = [InitA EXCEPT !.h = hh]
       /\ B = [InitB EXCEPT !.h = hh]
  /\ call = NoCall
  /\ text = NoText

\* pdf.section(...) at the start and after each body text
SmallSection ==
  /\ call.op \in {"begin", "body_text"}
  /\ call.n < MaxSmallCalls
  /\ A' = section(A, call.n + 1)
  /\ B' = sectionSD(B, call.n + 1)
  /\ call' = Called("section", 0, 0)
  /\ UNCHANGED text

\* pdf.body_text(...) of one line after each section
SmallBody ==
  /\ call.op = "section"
  /\ call.n < MaxSmallCalls
  /\ A' = body_text(A, call.n + 1, 1)
  /\ B' = body_textSD(B, call.n + 1, 1)
  /\ call' = Called("body_text", 1, 0)
  /\ UNCHANGED text

NextSmall ==
  \/ BeginDocument
  \/ SmallSection
  \/ SmallBody
  \/ Output

SpecSmall == InitSmall /\ [][NextSmall]_vars

(* --------------------- labeled lists of every width ------------------- *)

\* get_string_width(full): every width up to four column widths
WideWidths == 1..(4 * Geometry.col_w)

\* lines the list is wrapped into
WideWraps == {1, 4}

\* a 50-line code block on the fresh page
WideCodeBlock ==
  /\ call.op = "begin"
  /\ A' = code_block(A, call.n + 1, 50)
  /\ B' = code_blockSD(B, call.n + 1, 50)
  /\ call' = Called("code_block", 50, 0)
  /\ UNCHANGED text

\* a section header beneath it
WideSection ==
  /\ call.op = "code_block"
  /\ A' = section(A, call.n + 1)
  /\ B' = sectionSD(B, call.n + 1)
  /\ call' = Called("section", 0, 0)
  /\ UNCHANGED text

\* a labeled list of any width, at the top of the page, beneath the code
\* block or beneath the section header
WideList ==
  /\ call.op \in {"begin", "code_block", "section"}
  /\ \E w \in WideWidths, wraps \in WideWraps :
       /\ A' = compact_list(A, call.n + 1, w, wraps)
       /\ B' = compact_list(B, call.n + 1, w, wraps)
       /\ call' = Called("compact_list", w, wraps)
  /\ UNCHANGED text

NextWide ==
  \/ BeginDocument
  \/ WideCodeBlock
  \/ WideSection
  \/ WideList

SpecWide == Init /\ [][NextWide]_vars

(* ------------------- runs of blocks that fill a column ---------------- *)

\* number of calls of a run of tall blocks: enough for two pages started
\* by overflow, one after the other
MaxTallCalls == 7

\* len(lines) of code blocks of which two never share a column
TallCodeLines == {50, 57}

OpenTall == call.op \notin {"init", "output"} /\ call.n < MaxTallCalls

TallCodeBlock ==
  /\ OpenTall
  /\ \E n \in TallCodeLines :
       /\ A' = code_block(A, call.n + 1, n)
       /\ B' = code_blockSD(B, call.n + 1, n)
       /\ call' = Called("code_block", n, 0)
  /\ UNCHANGED text

TallNewPage ==
  /\ OpenTall
  /\ \E t \in Titles :
       /\ A' = new_page(A, t)
       /\ B' = new_pageSD(B, t)
       /\ call' = [Called("new_page", 0, 0) EXCEPT !.title = t]
  /\ UNCHANGED text

NextTall ==
  \/ BeginDocument
  \/ TallCodeBlock
  \/ TallNewPage
  \/ Output

SpecTall == Init /\ [][NextTall]_vars

(* ------------- a sub-header and its code at every offset -------------- *)

\* the offsets of a column, a tenth of a millimetre apart
Offsets == 0..((Geometry.h - Geometry.margin - Geometry.col_top) \div Tenth)

\* code blocks of few lines
ShortCodeLines == {1, 2, 3}

\* pdf.spacer(h) on the fresh page: the cursor is taken to an offset
OffsetSpacer ==
  /\ call.op = "begin"
  /\ \E k \in Offsets :
       /\ A' = spacer(A, k * Tenth)
       /\ B' = spacer(B, k * Tenth)
       /\ call' = Called("spacer", k * Tenth, 0)
  /\ UNCHANGED text

\* pdf.subsection(...) at that offset
OffsetSubsection ==
  /\ call.op = "spacer"
  /\ A' = subsection(A, call.n + 1)
  /\ B' = subsectionSD(B, call.n + 1)
  /\ call' = Called("subsection", 0, 0)
  /\ UNCHANGED text

\* pdf.compact_list(...) between the sub-header and its block
OffsetList ==
  /\ call.op = "subsection"
  /\ \E in \in ListInputs :
       /\ A' = compact_list(A, call.n + 1, in[1], in[2])
       /\ B' = compact_list(B, call.n + 1, in[1], in[2])
       /\ call' = Called("compact_list", in[1], in[2])
  /\ UNCHANGED text

\* pdf.body_text(...) after the sub-header or the list
OffsetBodyText ==
  /\ call.op \in {"subsection", "compact_list"}
  /\ \E n \in BodyLines :
       /\ A' = body_text(A, call.n + 1, n)
       /\ B' = body_textSD(B, call.n + 1, n)
       /\ call' = Called("body_text", n, 0)
  /\ UNCHANGED text

\* pdf.code_block(...) of few lines after the sub-header or the list
OffsetCodeBlock ==
  /\ call.op \in {"subsection", "compact_list"}
  /\ \E n \in ShortCodeLines :
       /\ A' = code_block(A, call.n + 1, n)
       /\ B' = code_blockSD(B, call.n + 1, n)
       /\ call' = Called("code_block", n, 0)
  /\ UNCHANGED text

NextOffset ==
  \/ BeginDocument
  \/ OffsetSpacer
  \/ OffsetSubsection
  \/ OffsetList
  \/ OffsetBodyText
  \/ OffsetCodeBlock

SpecOffset == Init /\ [][NextOffset]_vars

(* ------------------------- reading the canvas ------------------------- *)

\* the lowest y a block may reach: self.h - self.margin
Limit(e) == e.h - e.margin

\* the height of an empty column
ColHeight(e) == e.h - e.margin - e.col_top

\* the left edge of column c
ColX(e, c) == e.margin + c * (e.col_w + e.col_gap)

\* two drawn items share some area of the same page
Overlap(p, q) ==
  /\ p.page = q.page
  /\ p.x < q.x + q.w /\ q.x < p.x + p.w
  /\ p.y < q.y + q.h /\ q.y < p.y + p.h

\* item i of the canvas has not been painted over by a later filled item
Visible(e, i) ==
  ~ \E j \in (i + 1)..Len(e.canvas) :
      e.canvas[j].fill /\ Overlap(e.canvas[i], e.canvas[j])

BlockKinds == {"section", "subsect", "code", "body", "list"}

\* the indices of the canvas items of the given kind drawn for id
ItemsOf(e, kind, id) ==
  { i \in DOMAIN e.canvas : e.canvas[i].kind = kind /\ e.canvas[i].id = id }

\* the overflow of the last column has started a page
OverflowPage(e) ==
  /\ e.page >= 2
  /\ e.current_page_title = <<"Swift", CONT>>

(* ------------------------------- claims ------------------------------- *)

\* C1: in both engines the column index stays within 0 .. col_count - 1
\* after every call.
C1_ColumnIndexInRange ==
  /\ A.col_idx \in 0..(A.col_count - 1)
  /\ B.col_idx \in 0..(B.col_count - 1)

\* C1 witness: a block overflowed the last column and the engines went on
\* at column 0 of a continuation page.
C1_Witness ==
  /\ call.op = "code_block"
  /\ OverflowPage(A) /\ A.col_idx = 0
  /\ OverflowPage(B) /\ B.col_idx = 0

\* C2 as claimed: no block, of any height, is ever drawn with its bottom
\* edge below the bottom margin (start offset + height <= h - margin).
BottomWithin(e) ==
  \A i \in DOMAIN e.canvas :
    e.canvas[i].kind \in BlockKinds =>
      e.canvas[i].y + e.canvas[i].h <= Limit(e)

C2_NoBlockBelowMargin == BottomWithin(A) /\ BottomWithin(B)

\* C3 as claimed: after any call the cursor's vertical offset, measured
\* from the top of content as the cursor's offset within its column, does
\* not exceed the bottom margin minus col_top. (Read on col_y itself, which
\* the code counts from the top of the page, the claim asks for more, and
\* fails wherever this one does.)
C3_OffsetBelowMarginMinusTop ==
  /\ A.col_y - A.col_top <= Limit(A) - A.col_top
  /\ B.col_y - B.col_top <= Limit(B) - B.col_top

\* the call drew a block whose height fits an empty column together with a
\* sub-header band
FittingBlockCall ==
  \/ call.op = "section"
  \/ call.op = "code_block" /\ 55 * Tenth + CodeNeeded(call.a) <= ColHeight(A)
  \/ call.op = "body_text" /\ 55 * Tenth + BodyNeeded(call.a) <= ColHeight(A)

\* C3 amended: after a section, code_block or body_text call whose block
\* fits an empty column together with a 5.5 header band, and in engine A
\* after a subsection call, col_y is at most h - margin + 0.5: the bound is
\* the bottom margin itself, and 0.5 is the gap code_block leaves below
\* its rectangle.
C3_ColYAfterBlock ==
  /\ FittingBlockCall =>
       /\ A.col_y <= Limit(A) + 5 * Tenth
       /\ B.col_y <= Limit(B) + 5 * Tenth
  /\ call.op = "subsection" => A.col_y <= Limit(A)

\* C3 witness: three sections and a 50-line code block that just fits: the
\* cursor ends in the 0.5 gap below the bottom margin.
C3_Witness ==
  /\ call.op = "code_block" /\ FittingBlockCall
  /\ A.col_y > Limit(A)
  /\ B.col_y > Limit(B)

\* the column in which an item lies
ColumnOf(e, it) ==
  CHOOSE c \in 0..(e.col_count - 1) :
    ColX(e, c) <= it.x /\ it.x < ColX(e, c) + e.col_w

\* the item last drawn
LastItem(e) == e.canvas[Len(e.canvas)]

\* the visible header bands of the sub-header with the given title
VisibleHeaders(e, title) ==
  { i \in ItemsOf(e, "subsect", title) : Visible(e, i) }

\* the last call is a code_block or body_text call made right after a
\* subsection call
BlockAfterSubsection ==
  call.op \in {"code_block", "body_text"} /\ call.prev = "subsection"

\* every visible band of the sub-header of the call before the last lies
\* in the page and column of the block last drawn, 5.5 above it, and there
\* is such a band
HeaderOnBlock(e) ==
  LET hs == VisibleHeaders(e, call.n - 1)
      blk == LastItem(e)
  IN  /\ hs # {}
      /\ \A i \in hs :
           /\ e.canvas[i].page = blk.page
           /\ ColumnOf(e, e.canvas[i]) = ColumnOf(e, blk)
           /\ blk.y = e.canvas[i].y + 55 * Tenth

\* C4: in both engines, when code_block or body_text directly follows
\* subsection, the visible header and the block are in the same page and
\* column, the block starting 5.5 below the header's offset.
C4_HeaderStaysWithBlock ==
  BlockAfterSubsection => HeaderOnBlock(A) /\ HeaderOnBlock(B)

\* C4 witness: the block did not fit beneath the header drawn by engine A,
\* which erased the header and drew it again with the block.
C4_Witness ==
  /\ BlockAfterSubsection
  /\ LastItem(A).kind = "code"
  /\ A.canvas[Len(A.canvas) - 1].kind = "subsect"
  /\ \E i \in DOMAIN A.canvas :
       A.canvas[i].kind = "white" /\ A.canvas[i].id = call.n - 1

\* C5: in engine A every title passed to subsection has exactly one
\* visible header band on the canvas, after every call.
C5_HeaderVisibleOnce ==
  \A t \in call.subs : Cardinality(VisibleHeaders(A, t)) = 1

\* C5 witness: a header was erased by orphan correction and the document
\* has been written.
C5_Witness ==
  /\ call.op = "output"
  /\ \E i \in DOMAIN A.canvas :
       /\ A.canvas[i].kind = "white"
       /\ Cardinality(ItemsOf(A, "subsect", A.canvas[i].id)) = 2

\* C6 as claimed: in engine B, when the document is written every title
\* passed to subsection has been drawn exactly once.
C6_DeferredHeaderDrawnOnce ==
  call.op = "output" =>
    \A t \in call.subs : Cardinality(ItemsOf(B, "subsect", t)) = 1

\* the first header band drawn after canvas item i for the same title
RedrawnAfter(e, i) ==
  LET later == { j \in ItemsOf(e, "subsect", e.canvas[i].id) : j > i }
  IN  CHOOSE j \in later : \A k \in later : j <= k

\* C7 as claimed: in engine A, whenever orphan correction fires, the header
\* is drawn again in another page or column than the one it was erased in.
C7_RedrawnElsewhere ==
  \A i \in DOMAIN A.canvas :
    A.canvas[i].kind = "white" =>
      LET hdr == A.canvas[RedrawnAfter(A, i)]
      IN  \/ hdr.page # A.canvas[i].page
          \/ ColumnOf(A, hdr) # ColumnOf(A, A.canvas[i])

\* C8 as claimed: in engine A the white rectangle of orphan correction
\* paints over nothing but the header band it erases.
C8_WhiteCoversHeaderOnly ==
  \A i \in DOMAIN A.canvas :
    A.canvas[i].kind = "white" =>
      \A j \in 1..(i - 1) :
        Overlap(A.canvas[j], A.canvas[i]) =>
          A.canvas[j].kind = "subsect" /\ A.canvas[j].id = A.canvas[i].id

\* C9 as claimed: after the placement call that follows a subsection call,
\* whatever its block type, no pending header record remains.
C9_RecordGoneAfterNextPlacement ==
  ( /\ call.prev = "subsection"
    /\ call.op \in {"code_block", "body_text", "compact_list", "section"} )
  => A.last_subsect = None /\ B.pending_subsect = None

\* the block a call has drawn lies where the space check for height H
\* leaves the cursor of the state before the call: at the cursor when
\* col_y + H is within h - margin; else at the top of content of the next
\* column, or of column 0 of a new page when the column was the last one
PlacedByCheck(e, f, H) ==
  LET blk == LastItem(f)
  IN  IF e.col_y + H > e.h - e.margin
      THEN /\ blk.y = e.col_top
           /\ IF e.col_idx = e.col_count - 1
              THEN blk.page = e.page + 1 /\ ColumnOf(f, blk) = 0
              ELSE blk.page = e.page /\ ColumnOf(f, blk) = e.col_idx + 1
      ELSE /\ blk.y = e.col_y
           /\ blk.page = e.page
           /\ ColumnOf(f, blk) = e.col_idx

\* the height compact_list reserves for the list of the call made
ListNeeded(e) == EstLines(e, call'.a) * 32 * Tenth + 1 * MM

\* C10: a call that checks for height H and finds col_y + H beyond
\* h - margin draws at the top of the next column, or of column 0 of a new
\* page after the last column; otherwise it draws at the unchanged page,
\* column and offset. Section checks for 7, compact_list for its estimate,
\* subsection of engine A for 14.8, code_block and body_text for the
\* block's height when no header record is pending.
C10_CheckSpaceAdvance ==
  [][ /\ call'.op = "section" =>
           PlacedByCheck(A, A', 7 * MM) /\ PlacedByCheck(B, B', 7 * MM)
      /\ call'.op = "compact_list" =>
           /\ PlacedByCheck(A, A', ListNeeded(A))
           /\ PlacedByCheck(B, B', ListNeeded(B))
      /\ call'.op = "subsection" => PlacedByCheck(A, A', 148 * Tenth)
      /\ (call'.op = "code_block" /\ A.last_subsect = None) =>
           PlacedByCheck(A, A', CodeNeeded(call'.a))
      /\ (call'.op = "code_block" /\ B.pending_subsect = None) =>
           PlacedByCheck(B, B', CodeNeeded(call'.a))
      /\ (call'.op = "body_text" /\ A.last_subsect = None) =>
           PlacedByCheck(A, A', BodyNeeded(call'.a))
      /\ (call'.op = "body_text" /\ B.pending_subsect = None) =>
           PlacedByCheck(B, B', BodyNeeded(call'.a))
    ]_vars

\* C10 witness: a section header that did not fit in the last column
\* stands at the top of column 0 of a continuation page.
C10_Witness ==
  /\ call.op = "section"
  /\ OverflowPage(A) /\ OverflowPage(B)
  /\ LastItem(A).kind = "section" /\ LastItem(A).id = call.n
  /\ LastItem(A).y = A.col_top /\ ColumnOf(A, LastItem(A)) = 0
  /\ LastItem(B).y = B.col_top /\ ColumnOf(B, LastItem(B)) = 0
  /\ Cardinality({ i \in DOMAIN A.canvas : A.canvas[i].kind = "banner" }) = 2

\* the block last drawn stands first on the current page, at column 0 and
\* at the top of content, right after the page's banner
FirstOnPage(e) ==
  /\ Len(e.canvas) >= 2
  /\ e.canvas[Len(e.canvas) - 1].kind = "banner"
  /\ LastItem(e).page = e.page
  /\ ColumnOf(e, LastItem(e)) = 0
  /\ LastItem(e).y = e.col_top

\* C11: a section call made right after new_page draws its header at
\* column 0 and at the top of content of the new page, in both engines,
\* whatever the state before new_page.
C11_SectionAfterNewPage ==
  (call.op = "section" /\ call.prev = "new_page") =>
    /\ LastItem(A).kind = "section" /\ LastItem(A).id = call.n /\ FirstOnPage(A)
    /\ LastItem(B).kind = "section" /\ LastItem(B).id = call.n /\ FirstOnPage(B)

\* C11 witness: new_page was called with engine A beyond column 0, engine B
\* past the bottom margin, and a header record pending in both.
C11_Witness ==
  /\ call.op = "section" /\ call.prev = "new_page"
  /\ (call.n - 2) \in call.subs
  /\ \E i \in DOMAIN A.canvas :
       /\ A.canvas[i].kind = "subsect"
       /\ A.canvas[i].id = call.n - 2
       /\ ColumnOf(A, A.canvas[i]) >= 1

\* the banners of the canvas, in the order drawn
Banners(e) == SelectSeq(e.canvas, LAMBDA it : it.kind = "banner")

\* a call other than new_page has started a page of engine e, now f: the
\* page is the next one, and its title, on the banner too, is the first
\* token of the title last given followed by one suffix
ContinuationTitle(e, f) ==
  (f.page # e.page /\ call'.op # "new_page" /\ call.op # "init") =>
    /\ f.page = e.page + 1
    /\ f.current_page_title = <<call.title[1], CONT>>
    /\ Banners(f)[Len(Banners(f))].id = <<call.title[1], CONT>>
    /\ Banners(f)[Len(Banners(f))].page = f.page
    /\ Len(Banners(f)) = Len(Banners(e)) + 1

\* C12: every page started by overflow is titled with the base of the
\* title last given to page_header or new_page (that title without a
\* suffix of its own) followed by " (cont.)" exactly once, however many
\* pages overflow in a row.
C12_ContinuationTitleOnce ==
  [][ContinuationTitle(A, A') /\ ContinuationTitle(B, B')]_vars

\* C12 witness: two pages in a row were started by overflow, and both
\* carry the title with one suffix.
C12_Witness ==
  /\ A.page = 3 /\ B.page = 3
  /\ call.title = <<"Swift">>
  /\ Len(Banners(A)) = 3
  /\ Banners(A)[2].id = <<"Swift", CONT>>
  /\ Banners(A)[3].id = <<"Swift", CONT>>
  /\ Banners(B)[2].id = <<"Swift", CONT>>
  /\ Banners(B)[3].id = <<"Swift", CONT>>

\* C13: after new_page or section returns, neither engine holds a pending
\* header record.
C13_NoRecordAfterPageOrSection ==
  call.op \in {"new_page", "section"} =>
    A.last_subsect = None /\ B.pending_subsect = None

\* C13 witness: section was called right after subsection, with the record
\* set in both engines.
C13_Witness ==
  /\ call.op = "section" /\ call.prev = "subsection"
  /\ (call.n - 1) \in call.subs
  /\ ItemsOf(A, "subsect", call.n - 1) # {}

\* C14 as claimed: while page and column stay the same, no call lowers
\* col_y, in either engine.
C14_OffsetNeverDecreases ==
  [][ /\ (A'.page = A.page /\ A'.col_idx = A.col_idx) => A'.col_y >= A.col_y
      /\ (B'.page = B.page /\ B'.col_idx = B.col_idx) => B'.col_y >= B.col_y
    ]_vars

\* the indices of the white rectangles painted over the header of title t
Erasures(e, t) == ItemsOf(e, "white", t)

\* C15: in engine A each sub-header is erased at most once and drawn at
\* most twice (once more only when it was erased), over any sequence of
\* calls; the engine has one record field, so at most one record is
\* pending.
C15_ErasedAtMostOnce ==
  \A t \in call.subs :
    /\ Cardinality(Erasures(A, t)) <= 1
    /\ Cardinality(ItemsOf(A, "subsect", t)) = 1 + Cardinality(Erasures(A, t))
    /\ A.last_subsect # None => A.last_subsect[1] \in call.subs

\* C15 witness: a header was erased and redrawn at the top of a column,
\* and a later block overflowed that very column with no record left to
\* correct.
C15_Witness ==
  /\ call.op = "code_block" /\ call.prev = "code_block"
  /\ A.last_subsect = None
  /\ \E t \in call.subs :
       /\ t = call.n - 2
       /\ Cardinality(Erasures(A, t)) = 1
       /\ \E i \in ItemsOf(A, "subsect", t) :
            /\ Visible(A, i)
            /\ ColumnOf(A, LastItem(A)) # ColumnOf(A, A.canvas[i])

\* a compact_list call only appends to the canvas of engine e, now f, a
\* banner if it starts a page and its own list: nothing drawn before is
\* erased, moved or redrawn, and the header record is left alone
ListOnlyAppends(e, f) ==
  /\ Len(f.canvas) > Len(e.canvas)
  /\ SubSeq(f.canvas, 1, Len(e.canvas)) = e.canvas
  /\ \A i \in (Len(e.canvas) + 1)..Len(f.canvas) :
       f.canvas[i].kind \in {"banner", "list"}
  /\ LastItem(f).kind = "list"
  /\ \A i \in DOMAIN e.canvas : Visible(e, i) => Visible(f, i)

\* C16: a compact_list call, overflowing or not, applies no orphan
\* correction: it draws its list at the place the standard check for its
\* estimated height leaves the cursor, and erases, moves and redraws
\* nothing.
C16_ListNoCorrection ==
  [][ call'.op = "compact_list" =>
        /\ ListOnlyAppends(A, A') /\ ListOnlyAppends(B, B')
        /\ A'.last_subsect = A.last_subsect
        /\ B'.pending_subsect = B.pending_subsect
        /\ PlacedByCheck(A, A', ListNeeded(A))
        /\ PlacedByCheck(B, B', ListNeeded(B))
    ]_vars

\* C16 witness: a list called right after subsection overflowed the column
\* in which engine A had drawn the header, and the header stayed there.
C16_Witness ==
  /\ call.op = "compact_list" /\ call.prev = "subsection"
  /\ A.last_subsect # None
  /\ \E i \in ItemsOf(A, "subsect", call.n - 1) :
       /\ Visible(A, i)
       /\ A.canvas[i].page = LastItem(A).page
       /\ ColumnOf(A, A.canvas[i]) + 1 = ColumnOf(A, LastItem(A))

\* C17: spacer(h) adds h to col_y and changes nothing else in either
\* engine: no field, no drawing, no overflow advance.
C17_SpacerFrame ==
  [][ call'.op = "spacer" =>
        /\ A' = [A EXCEPT !.col_y = A.col_y + call'.a]
        /\ B' = [B EXCEPT !.col_y = B.col_y + call'.a]
    ]_vars

\* C17 witness: a spacer moved the cursor from within the column to past
\* the bottom margin, in both engines.
C17_Witness ==
  /\ call.op = "spacer"
  /\ A.col_y > Limit(A) /\ A.col_y - call.a <= Limit(A)
  /\ B.col_y > Limit(B) /\ B.col_y - call.a <= Limit(B)

\* str is the beginning of line
IsPrefix(str, line) ==
  Len(str) <= Len(line) /\ str = SubSeq(line, 1, Len(str))

\* C20 as claimed: the line handed to cell is no wider than the available
\* width and is a strict prefix of the original line.
C20_StrictPrefixThatFits ==
  text.pc = "cell" =>
    /\ get_string_width(text.truncated) <= text.available_w
    /\ IsPrefix(text.truncated, text.line)
    /\ text.truncated # text.line

\* C20 amended: the line handed to cell is no wider than the available
\* width and is a prefix of the original line: the whole line when that
\* fits, else its longest prefix that fits.
C20_LongestPrefixThatFits ==
  text.pc = "cell" =>
    /\ get_string_width(text.truncated) <= text.available_w
    /\ IsPrefix(text.truncated, text.line)
    /\ \A n \in (Len(text.truncated) + 1)..Len(text.line) :
         get_string_width(SubSeq(text.line, 1, n)) > text.available_w

\* C20 witness: a line too wide was cut to a prefix that is neither empty
\* nor the line.
C20_Witness ==
  /\ text.pc = "cell"
  /\ text.removed > 0
  /\ Len(text.truncated) > 0
  /\ Len(text.truncated) < Len(text.line)

\* engine e, now f, has drawn its list as the check for at least four
\* lines demands: in the next column when 4 * 3.2 + 1 does not fit
ReservedFourLines(e, f) ==
  e.col_y + 4 * 32 * Tenth + 1 * MM > e.h - e.margin =>
    /\ LastItem(f).y = e.col_top
    /\ ColumnOf(f, LastItem(f)) = e.col_idx + 1

\* C19: for a list whose measured width exceeds three column widths,
\* est_lines is at least 4 and the overflow check is made for
\* est_lines * 3.2 + 1, not for one line.
C19_WideListEstimate ==
  [][ (call'.op = "compact_list" /\ call'.a > 3 * A.col_w) =>
        /\ EstLines(A, call'.a) >= 4 /\ EstLines(B, call'.a) >= 4
        /\ PlacedByCheck(A, A', ListNeeded(A))
        /\ PlacedByCheck(B, B', ListNeeded(B))
        /\ ReservedFourLines(A, A') /\ ReservedFourLines(B, B')
    ]_vars

\* C19 witness: a list just wider than three columns went to the next
\* column from an offset at which one line would have fitted.
C19_Witness ==
  /\ call.op = "compact_list" /\ call.prev = "section"
  /\ call.a = 3 * A.col_w + 1
  /\ ColumnOf(A, LastItem(A)) = 1 /\ LastItem(A).y = A.col_top
  /\ ColumnOf(B, LastItem(B)) = 1 /\ LastItem(B).y = B.col_top

\* the k-th section header of a run of section/body pairs is on page p,
\* column c of engine e
SectionAt(e, k, p, c) ==
  \E i \in ItemsOf(e, "section", 2 * k - 1) :
    e.canvas[i].page = p /\ ColumnOf(e, e.canvas[i]) = c

\* seven sections, each with its one-line body, have been placed
SevenPlaced == call.n = 2 * 7

SubsectionReserve == 6 * MM + 2 * 34 * Tenth + 2 * MM

\* C21: in engine A subsection draws its header where at least
\* 6 + 2 * 3.4 + 2 remains beneath the header's top, and the code_block of
\* at most two lines that directly follows is drawn 5.5 beneath it in the
\* same page and column, within the bottom margin, with nothing erased or
\* redrawn.
C21_TwoLinesFitBeneathHeader ==
  [][ /\ call'.op = "subsection" =>
           /\ LastItem(A').kind = "subsect"
           /\ LastItem(A').y + SubsectionReserve <= Limit(A)
      /\ (call.op = "subsection" /\ call'.op = "code_block" /\ call'.a <= 2) =>
           /\ A'.page = A.page /\ A'.col_idx = A.col_idx
           /\ A'.canvas = Append(A.canvas, LastItem(A'))
           /\ LastItem(A').kind = "code"
           /\ LastItem(A').y = LastItem(A).y + 55 * Tenth
           /\ LastItem(A').y + LastItem(A').h <= Limit(A)
    ]_vars

\* C21 witness: a code block of two lines lies beneath a header drawn
\* where exactly the reserved room was left.
C21_Witness ==
  /\ call.op = "code_block" /\ call.prev = "subsection" /\ call.a = 2
  /\ Len(A.canvas) = 3
  /\ A.canvas[2].kind = "subsect" /\ A.canvas[3].kind = "code"
  /\ A.canvas[2].y + SubsectionReserve = Limit(A)
  /\ A.canvas[3].y = A.canvas[2].y + 55 * Tenth

\* the height the code_block or body_text call being made asks for
BlockNeeded ==
  IF call'.op = "code_block" THEN CodeNeeded(call'.a) ELSE BodyNeeded(call'.a)

\* engine e holds a header record, and the record is of another page or
\* column than the cursor or the block asking for needed does not overflow
RecordNotUsed(e, needed) ==
  /\ e.last_subsect # None
  /\ \/ e.last_subsect[3] # e.page
     \/ e.last_subsect[4] # e.col_idx
     \/ e.col_y + needed <= e.h - e.margin

\* the white rectangles and the sub-header bands drawn so far
Corrections(e) ==
  SelectSeq(e.canvas, LAMBDA it : it.kind \in {"white", "subsect"})

\* C22: in engine A a code_block or body_text call that finds a header
\* record of another page or column, or that does not overflow, erases and
\* redraws no header, clears the record and places its block by the
\* standard overflow check for the block's height.
C22_FallsBackToStandardCheck ==
  [][ ( /\ call'.op \in {"code_block", "body_text"}
        /\ RecordNotUsed(A, BlockNeeded) ) =>
        /\ A'.last_subsect = None
        /\ Corrections(A') = Corrections(A)
        /\ LastItem(A').kind \in {"code", "body"} /\ LastItem(A').id = call'.n
        /\ PlacedByCheck(A, A', BlockNeeded)
    ]_vars

\* C22 witness: the list after a sub-header went to the next column, and
\* the block after the list was drawn there beneath it, the header left
\* where it was drawn, nothing erased.
C22_Witness ==
  /\ call.op \in {"code_block", "body_text"} /\ call.prev = "compact_list"
  /\ Len(A.canvas) = 4
  /\ A.canvas[2].kind = "subsect" /\ A.canvas[3].kind = "list"
  /\ ColumnOf(A, A.canvas[2]) = 0
  /\ ColumnOf(A, A.canvas[3]) = 1 /\ ColumnOf(A, A.canvas[4]) = 1
  /\ A.canvas[4].y > A.canvas[3].y
  /\ A.last_subsect = None

\* the indices of the title banners drawn on page p of engine e
BannersOn(e, p) ==
  { i \in DOMAIN e.canvas : e.canvas[i].kind = "banner" /\ e.canvas[i].page = p }

\* every page started so far shows one banner, drawn before anything else
\* on the page
BannerOnceAndFirst(e) ==
  \A p \in 1..e.page :
    /\ Cardinality(BannersOn(e, p)) = 1
    /\ \A i \in BannersOn(e, p), j \in DOMAIN e.canvas :
         e.canvas[j].page = p => i <= j

\* the step of engine e to f started a page: one page, whose banner is the
\* first thing the step drew there, and either the cursor is left at the
\* top of content or what the step drew next lies at the top of content
PageStartedAtTop(e, f) ==
  f.page # e.page =>
    /\ f.page = e.page + 1
    /\ \E i \in BannersOn(f, f.page) :
         /\ i > Len(e.canvas)
         /\ \A j \in (Len(e.canvas) + 1)..(i - 1) : f.canvas[j].page = e.page
         /\ IF i = Len(f.canvas)
            THEN f.col_y = f.col_top
            ELSE f.canvas[i + 1].y = f.col_top

\* C23: every page started by the build, by new_page or by an overflow
\* advance has its title banner drawn exactly once, before any block of
\* the page, and the cursor is then at the top of content.
C23_BannerOncePerPage ==
  [][ /\ BannerOnceAndFirst(A') /\ PageStartedAtTop(A, A')
      /\ BannerOnceAndFirst(B') /\ PageStartedAtTop(B, B')
    ]_vars

\* C23 witness: a block overflowed the last column; the banner of the
\* page it started is followed by that block at the top of content.
C23_Witness ==
  /\ call.op \in {"code_block", "body_text"}
  /\ A.page = 2 /\ A.canvas[Len(A.canvas) - 1].kind = "banner"
  /\ LastItem(A).page = 2 /\ LastItem(A).y = A.col_top
  /\ B.page = 2 /\ B.canvas[Len(B.canvas) - 1].kind = "banner"
  /\ LastItem(B).page = 2 /\ LastItem(B).y = B.col_top

\* the canvas geometry of engine e
GeometryOf(e) ==
  [col_count |-> e.col_count, margin |-> e.margin, col_gap |-> e.col_gap,
   usable_w |-> e.usable_w, col_w |-> e.col_w, col_top |-> e.col_top]

\* C24: column count, margin, column gap, usable width, column width and
\* top of content keep the values the constructor gave them, in both
\* engines, through every placement and every page or column advance.
C24_GeometryUnchanged ==
  /\ GeometryOf(A) = GeometryOf(InitA)
  /\ GeometryOf(B) = GeometryOf(InitB)

\* C24 witness: a block has advanced the column and new_page has then
\* started a page.
C24_Witness ==
  /\ call.op = "new_page" /\ A.page = 2 /\ B.page = 2
  /\ \E i \in DOMAIN A.canvas :
       A.canvas[i].kind \in BlockKinds /\ ColumnOf(A, A.canvas[i]) >= 1
  /\ \E i \in DOMAIN B.canvas :
       B.canvas[i].kind \in BlockKinds /\ ColumnOf(B, B.canvas[i]) >= 1

\* the height the call being made reserves in its overflow check in
\* engine e (a pending header's 5.5 apart)
Reserved(e) ==
  CASE call'.op = "section"      -> 7 * MM
    [] call'.op = "subsection"   -> SubsectionReserve
    [] call'.op = "code_block"   -> CodeNeeded(call'.a)
    [] call'.op = "body_text"    -> BodyNeeded(call'.a)
    [] call'.op = "compact_list" -> ListNeeded(e)

\* how far the cursor of engine f lies beneath the top of the block last
\* drawn
Advance(f) == f.col_y - LastItem(f).y

\* C25 as claimed: a section, subsection, code_block, body_text or
\* compact_list call advances the offset from the block's start by no more
\* than the height it reserved in its overflow check.
C25_AdvanceWithinReserve ==
  [][ call'.op \in {"section", "subsection", "code_block", "body_text",
                    "compact_list"} =>
        /\ Advance(A') <= Reserved(A)
        /\ call'.op # "subsection" => Advance(B') <= Reserved(B)
    ]_vars

\* every subsection call made so far was directly followed by a
\* code_block or body_text call (engine A draws a block for each of these
\* calls and keeps it in its canvas history)
WellFormed ==
  \A k \in call.subs :
    \E i \in DOMAIN A.canvas :
      A.canvas[i].kind \in {"code", "body"} /\ A.canvas[i].id = k + 1

\* the visible blocks of engine e, each with its page and position
VisibleBlocks(e) ==
  { [kind |-> e.canvas[i].kind, id |-> e.canvas[i].id,
     page |-> e.canvas[i].page, x |-> e.canvas[i].x, y |-> e.canvas[i].y] :
      i \in { j \in DOMAIN e.canvas :
                e.canvas[j].kind \in BlockKinds /\ Visible(e, j) } }

\* C26 as claimed: after a call sequence in which each subsection call is
\* directly followed by a code_block or body_text call, the two engines
\* show the same blocks at the same page, column and offset and have the
\* same cursor.
C26_EnginesAgree ==
  WellFormed =>
    /\ VisibleBlocks(A) = VisibleBlocks(B)
    /\ A.page = B.page /\ A.col_idx = B.col_idx /\ A.col_y = B.col_y

\* item p lies at a position not after item q: an earlier page, or an
\* earlier column of the page, or not lower in the column
NotAfter(e, p, q) ==
  \/ p.page < q.page
  \/ p.page = q.page /\ ColumnOf(e, p) < ColumnOf(e, q)
  \/ p.page = q.page /\ ColumnOf(e, p) = ColumnOf(e, q) /\ p.y <= q.y

\* the visible blocks of engine e follow each other in the order of the
\* calls they were drawn for (a block's id is the number of its call)
InCallOrder(e) ==
  \A i, j \in DOMAIN e.canvas :
    ( /\ e.canvas[i].kind \in BlockKinds /\ Visible(e, i)
      /\ e.canvas[j].kind \in BlockKinds /\ Visible(e, j)
      /\ e.canvas[i].id < e.canvas[j].id ) =>
      NotAfter(e, e.canvas[i], e.canvas[j])

\* C27 as claimed: in both engines the visible block of an earlier call is
\* never at a position after the visible block of a later call.
C27_BlocksInCallOrder == InCallOrder(A) /\ InCallOrder(B)

\* the cursor of engine e, now f, stayed at its location or went to the
\* next one: the next column of the page, or column 0 of the next page
\* after the last column
OneLocationOn(e, f) ==
  \/ f.page = e.page /\ f.col_idx = e.col_idx
  \/ f.page = e.page /\ f.col_idx = e.col_idx + 1
  \/ f.page = e.page + 1 /\ f.col_idx = 0 /\ e.col_idx = e.col_count - 1

\* C28: in both engines the page index never decreases; new_page adds one
\* page, and every other call leaves the cursor at its location or takes
\* it to the next location, never past a column and never by two pages.
C28_CursorMovesForward ==
  [][ /\ A'.page >= A.page /\ B'.page >= B.page
      /\ call'.op \in {"begin", "new_page"} =>
           A'.page = A.page + 1 /\ B'.page = B.page + 1
      /\ call'.op \notin {"begin", "new_page"} =>
           OneLocationOn(A, A') /\ OneLocationOn(B, B')
    ]_vars

\* C28 witness: a code block higher than a column, called after a
\* sub-header at the top of column 0, has taken both engines to column 1,
\* engine A through its orphan correction.
C28_Witness ==
  /\ call.op = "code_block" /\ call.prev = "subsection"
  /\ CodeNeeded(call.a) > ColHeight(A)
  /\ Erasures(A, call.n - 1) # {}
  /\ A.page = 1 /\ A.col_idx = 1
  /\ B.page = 1 /\ B.col_idx = 1

\* the sub-header bands engine e has drawn
HeaderBands(e) == SelectSeq(e.canvas, LAMBDA it : it.kind = "subsect")

\* engine f without the item it drew last
BeforeLast(f) == [f EXCEPT !.canvas = SubSeq(@, 1, Len(@) - 1)]

\* C29: in engine B subsection replaces the pending title and changes
\* nothing else; a header band is drawn only by a code_block or body_text
\* call that finds a pending title, placed by that call's overflow check
\* for 5.5 + block height, and the block follows 5.5 beneath it.
C29_DeferredHeader ==
  [][ /\ call'.op = "subsection" =>
           B' = [B EXCEPT !.pending_subsect = <<call'.n>>]
      /\ HeaderBands(B') # HeaderBands(B) =>
           /\ call'.op \in {"code_block", "body_text"}
           /\ B.pending_subsect # None
      /\ (call'.op \in {"code_block", "body_text"} /\ B.pending_subsect # None) =>
           /\ B'.pending_subsect = None
           /\ HeaderBands(B') = Append(HeaderBands(B), LastItem(BeforeLast(B')))
           /\ LastItem(BeforeLast(B')).id = B.pending_subsect[1]
           /\ PlacedByCheck(B, BeforeLast(B'), 55 * Tenth + BlockNeeded)
           /\ LastItem(B').kind \in {"code", "body"}
           /\ LastItem(B').page = LastItem(BeforeLast(B')).page
           /\ LastItem(B').x >= LastItem(BeforeLast(B')).x
           /\ LastItem(B').x < LastItem(BeforeLast(B')).x + B.col_w
           /\ LastItem(B').y = LastItem(BeforeLast(B')).y + 55 * Tenth
    ]_vars

\* C29 witness: the deferred header was drawn at the top of column 1 with
\* its body text, beneath a block of column 0 that left room for the text
\* alone but not for header and text.
C29_Witness ==
  /\ call.op = "body_text" /\ call.prev = "subsection"
  /\ Len(B.canvas) = 4
  /\ B.canvas[2].kind = "code" /\ ColumnOf(B, B.canvas[2]) = 0
  /\ B.canvas[2].y + B.canvas[2].h + 5 * Tenth + BodyNeeded(call.a) <= Limit(B)
  /\ B.canvas[3].kind = "subsect" /\ B.canvas[3].id = call.n - 1
  /\ ColumnOf(B, B.canvas[3]) = 1 /\ B.canvas[3].y = B.col_top
  /\ B.canvas[4].kind = "body" /\ B.canvas[4].y = B.col_top + 55 * Tenth

\* not even the first character of the line fits the available width
FirstTooWide ==
  /\ Len(text.line) > 0
  /\ GlyphWidth(text.line[1]) > text.available_w

\* C30: the truncation loop of body_text comes to its end for every line
\* and every available width, after at most len(line) removals, and hands
\* the empty string to cell when not even the first character fits.
C30_TruncationTerminates ==
  /\ [](text.removed <= Len(text.line))
  /\ <>(text.pc = "cell")
  /\ []((text.pc = "cell" /\ FirstTooWide) => text.truncated = <<>>)

\* C30 witness: a line of the greatest length whose first character does
\* not fit has been cut to nothing, one removal for each character.
C30_Witness ==
  /\ text.pc = "cell" /\ FirstTooWide
  /\ Len(text.line) = MaxLineLen
  /\ text.removed = Len(text.line) /\ text.truncated = <<>>

====
